---- MODULE Spec2Model ----
(***************************************************************************)
(* Model of the tool-call resolution loop (OpenAIModel.complete_prompt),   *)
(* the submission handshake (ActionPlanner._handle_action_tools) and the   *)
(* plan builder (ToolsAugmentation) of teams-ai (python).                  *)
(*                                                                         *)
(* Python values of loosely typed slots are modelled as tagged strings:    *)
(* "None", "True", "False" stand for the Python constants, every other     *)
(* string for itself.                                                      *)
(***************************************************************************)
EXTENDS Integers, Sequences, FiniteSets, TLC

VARIABLES
    cfg,             \* template.config.completion + template.actions + temp.tools
    pc,              \* position of complete_prompt
    messages,        \* the transcript sent to the model
    response_message,\* completion.choices[0].message of the INITIAL completion
    tool_calls,      \* the calls the loop is looking at
    final_response,  \* latest completion
    idx,             \* position of the for loop of _handle_multiple_tool_calls
    curr_message_length,
    requests,        \* log of chat.completions.create calls
    handler_calls,   \* log of tool handler invocations
    result,          \* the PromptResponse returned
    raised,          \* the exception that left complete_prompt, "None" if none
    issued,          \* number of tool-call ids the model has produced this turn
    memory,          \* the state store keys of the handshake
    template,        \* the template the handshake reads
    hs_calls,        \* number of _handle_action_tools runs (turns)
    hs_pc,           \* "returned" right after a run, "entry" before the next one
    hs_pre,          \* the state store at the entry of the last run
    aug_actions,     \* ToolsAugmentation._actions
    store,           \* the ACTIONS_HISTORY key of the state store
    prompt_response, \* the PromptResponse handed to the augmentation
    pb_pc,           \* position of continue_task
    validation,      \* the Validation returned by validate_response
    plans,           \* what each run of create_plan_from_response produced
    pb_pre           \* store and response at the entry of the last augmentation call

vars == <<cfg, pc, messages, response_message, tool_calls, final_response, idx,
          curr_message_length, requests, handler_calls, result, raised, issued,
          memory, template, hs_calls, hs_pc, hs_pre,
          aug_actions, store, prompt_response, pb_pc, validation, plans, pb_pre>>

loopVars == <<cfg, pc, messages, response_message, tool_calls, final_response, idx,
              curr_message_length, requests, handler_calls, result, raised, issued>>

hsVars == <<memory, template, hs_calls, hs_pc, hs_pre>>

pbVars == <<aug_actions, store, prompt_response, pb_pc, validation, plans, pb_pre>>

(***************************************************************************)
(* Bounds                                                                  *)
(***************************************************************************)
\* tool calls the model issues in one turn (and so in one completion)
MaxCalls == 3
\* model invocations in one turn
MaxInvocations == 3
\* turns the handshake is followed over
MaxTurns == 2
\* action calls in the content of a response
MaxPlanCalls == 2
\* runs of create_plan_from_response on one response
MaxPlanRuns == 2

(***************************************************************************)
(* Python truthiness of the tagged values                                  *)
(***************************************************************************)
None == "None"

Truthy(v) == v \notin {"None", "False", "0", ""}

\* content / id slots are naturals; 0 is the absent value
NoContent == 0

NoId == 0

(***************************************************************************)
(* Tools: F has a schema with required = ["a"], G has no parameters,       *)
(* U is a name the model may produce that no action declares.              *)
(***************************************************************************)
CallNames == {"F", "G", "U"}

\* action.parameters["required"] of a template action; <<>> when the schema has none
RequiredOf(name) == IF name = "F" THEN <<"a">> ELSE <<>>

\* (template.actions, memory.get("temp.tools")) pairs; handlers "None" = not set
Registries ==
    { [actions |-> <<"F", "G">>, handlers |-> {"F", "G"}, set |-> TRUE],
      [actions |-> <<>>,         handlers |-> {"F", "G"}, set |-> TRUE],
      [actions |-> <<"F", "G">>, handlers |-> {},         set |-> FALSE],
      [actions |-> <<"F", "G">>, handlers |-> {},         set |-> TRUE],
      [actions |-> <<"F">>,      handlers |-> {"F", "G"}, set |-> TRUE],
      [actions |-> <<"F", "G">>, handlers |-> {"F", "U"}, set |-> TRUE] }

\* template.config.completion.tool_choice: unset, a string, or a dict pinning a function
ToolChoices ==
    { [type |-> "NoneType", value |-> "None"],
      [type |-> "str",      value |-> "none"],
      [type |-> "dict",     value |-> "F"],
      [type |-> "dict",     value |-> "G"],
      [type |-> "dict",     value |-> "U"] }

ParallelValues == {"None", "True", "False"}

\* template.config.augmentation: "None" = no augmentation, else its augmentation_type
AugmentationTypes == {"None", "none", "sequence"}

DefaultRegistry == [actions |-> <<"F", "G">>, handlers |-> {"F", "G"}, set |-> TRUE]

\* the registry is not looked at when tools are disabled: one registry stands for all
Configs ==
    { c \in [ include_tools : BOOLEAN,
              tool_choice : ToolChoices,
              parallel_tool_calls : ParallelValues,
              augmentation : AugmentationTypes,
              registry : Registries ] :
        ~c.include_tools => c.registry = DefaultRegistry }

(***************************************************************************)
(* Completions the model can return                                        *)
(***************************************************************************)
\* json.loads(arguments): ok = FALSE when the string is not JSON, else the dict's keys
ArgumentValues ==
    { [ok |-> TRUE, keys |-> k] : k \in {{}, {"a"}, {"b"}} }
        \cup { [ok |-> FALSE, keys |-> {}] }

\* F with every argument value, G and U without arguments
CallShapes ==
    { s \in [name : CallNames, arguments : ArgumentValues] :
        s.name # "F" => s.arguments = [ok |-> TRUE, keys |-> {}] }

ShapeSeqs(n) == UNION { [1..k -> CallShapes] : k \in 0..n }

\* ids are unique in the turn: the model numbers its calls consecutively
MakeCalls(shapes, base) ==
    [i \in 1..Len(shapes) |->
        [id |-> base + i, name |-> shapes[i].name, arguments |-> shapes[i].arguments]]

\* the n-th completion of the turn
Completion(n, hasText, calls) ==
    [n |-> n, role |-> "assistant",
     content |-> IF hasText THEN n ELSE NoContent,
     tool_calls |-> calls]

NoCompletion == Completion(0, FALSE, <<>>)

Msg(role, content, calls, id) ==
    [role |-> role, content |-> content, tool_calls |-> calls, tool_call_id |-> id]

\* res.output of render_as_messages: the prompt and the user's input
Rendered == << Msg("system", NoContent, <<>>, NoId), Msg("user", NoContent, <<>>, NoId) >>


(***************************************************************************)
(* The state store keys of the submission handshake                        *)
(***************************************************************************)
HsNames == {"F", "G"}

HsIds == {1, 2}

HsOutputs == {"x", "y"}

\* memory.get(SUBMIT_TOOL_OUTPUTS_VARIABLE): absent, booleans, a falsy non-boolean
\* and a truthy non-boolean
FlagValues == {"None", "False", "True", "0", "true"}

\* a Python dict in insertion order: a sequence of entries with distinct names
DistinctSeqs(S, n) ==
    { q \in UNION { [1..k -> S] : k \in 0..n } :
        \A i, j \in 1..Len(q) : i # j => q[i].name # q[j].name }

\* temp.action_outputs: None or a dict action name -> output
ActionOutputValues ==
    { [none |-> TRUE, items |-> <<>>] } \cup
    { [none |-> FALSE, items |-> q] :
        q \in DistinctSeqs([name : HsNames, output : HsOutputs], Cardinality(HsNames)) }

\* SUBMIT_TOOL_OUTPUTS_MAP: None or a dict action name -> tool call id
ToolMapValues ==
    { [none |-> TRUE, map |-> <<>>] } \cup
    { [none |-> FALSE, map |-> m] : m \in UNION { [S -> HsIds] : S \in SUBSET HsNames } }

HsToolMessage(tool_call_id, output) ==
    [tool_call_id |-> tool_call_id, role |-> "tool", content |-> output]

\* SUBMIT_TOOL_OUTPUTS_MESSAGES: None, a dict or a list of tool messages
EmptyDictValue == [kind |-> "dict", items |-> <<>>]

StagedValues ==
    { [kind |-> "None", items |-> <<>>], EmptyDictValue,
      [kind |-> "list", items |-> <<HsToolMessage(1, "x")>>] }

\* the policy of the template: a pinned function or "none", parallel on or off
Templates ==
    [tool_choice : {[type |-> "dict", value |-> "F"], [type |-> "str", value |-> "none"]},
     parallel_tool_calls : {"True", "False"}]

DefaultTemplate == [tool_choice |-> [type |-> "NoneType", value |-> "None"],
                    parallel_tool_calls |-> None]

FreshMemory ==
    [flag |-> None,
     action_outputs |-> [none |-> TRUE, items |-> <<>>],
     tool_map |-> [none |-> TRUE, map |-> <<>>],
     staged |-> [kind |-> "None", items |-> <<>>],
     tool_choice |-> [type |-> "NoneType", value |-> "None"],
     parallel_tool_calls |-> None]

MemoryStates ==
    [flag : FlagValues,
     action_outputs : ActionOutputValues,
     tool_map : ToolMapValues,
     staged : StagedValues,
     tool_choice : {FreshMemory.tool_choice},
     parallel_tool_calls : {None}]

(***************************************************************************)
(* Responses and the state store key of the tools augmentation             *)
(***************************************************************************)
Statuses == {"success", "error", "too_long", "tools_error"}

\* ActionFunction.arguments: raw strings as the model writes them
RawArguments == {"{}", "{\"a\": 1}", "{\"a\": "}

\* json.loads of a raw string: ok = FALSE when it raises, else the keys of the dict
JsonLoads(raw) ==
    IF raw = "{}" THEN [ok |-> TRUE, keys |-> {}]
    ELSE IF raw = "{\"a\": 1}" THEN [ok |-> TRUE, keys |-> {"a"}]
    ELSE [ok |-> FALSE, keys |-> {}]

ActionCallShapes == [name : {"F", "G"}, arguments : RawArguments]

\* ActionCall(id, function(name, arguments), type="function")
MakeActionCalls(shapes) ==
    [i \in 1..Len(shapes) |->
        [id |-> i, name |-> shapes[i].name, arguments |-> shapes[i].arguments]]

ActionCallLists(n) ==
    { MakeActionCalls(q) : q \in UNION { [1..k -> ActionCallShapes] : k \in 0..n } }

\* Message.content: None, a string or a list of action calls
ContentValues ==
    { [kind |-> "None", text |-> "", calls |-> <<>>],
      [kind |-> "str", text |-> "", calls |-> <<>>],
      [kind |-> "str", text |-> "hi", calls |-> <<>>] } \cup
    { [kind |-> "list", text |-> "", calls |-> c] : c \in ActionCallLists(MaxPlanCalls) }

\* Message.action_calls: None or a list
ActionCallsValues ==
    { [none |-> TRUE, calls |-> <<>>] } \cup
    { [none |-> FALSE, calls |-> c] : c \in ActionCallLists(1) }

NoMessage ==
    [role |-> None, content |-> [kind |-> "None", text |-> "", calls |-> <<>>],
     context |-> None, action_calls |-> [none |-> TRUE, calls |-> <<>>]]

MessageValues ==
    [role : {"assistant"}, content : ContentValues, context : {None, "citations"},
     action_calls : ActionCallsValues]

\* PromptResponse(status, message)
Responses ==
    { r \in [status : Statuses, has_message : BOOLEAN,
             message : MessageValues \cup {NoMessage}] :
        r.has_message <=> r.message # NoMessage }

\* the ACTIONS_HISTORY key: absent, or present with the recorded list
StoreValues ==
    { [has |-> FALSE, value |-> <<>>],
      [has |-> TRUE, value |-> <<>>],
      [has |-> TRUE, value |-> <<"F">>] }

\* memory.has(ACTIONS_HISTORY)
StoreHas(st) == st.has

\* memory.set(ACTIONS_HISTORY, value)
StoreSet(st, value) == [has |-> TRUE, value |-> value]

NoValidation == [valid |-> FALSE, has_value |-> FALSE, value |-> <<>>]

PlanIdle ==
    /\ aug_actions = TRUE
    /\ store = [has |-> FALSE, value |-> <<>>]
    /\ prompt_response =
          [status |-> "success", has_message |-> FALSE, message |-> NoMessage]
    /\ pb_pc = "start"
    /\ validation = NoValidation
    /\ plans = <<>>
    /\ pb_pre = [store |-> store, response |-> prompt_response]

(***************************************************************************)
(* complete_prompt: setup                                                  *)
(***************************************************************************)
Tool(name) == [name |-> name, required |-> RequiredOf(name), handler |-> name]

RECURSIVE ResolveTools(_, _)
\* the for loop over template.actions: a tool for every action that has a handler
ResolveTools(actions, handlers) ==
    IF actions = <<>> THEN <<>>
    ELSE IF Head(actions) \in handlers
         THEN <<Tool(Head(actions))>> \o ResolveTools(Tail(actions), handlers)
         ELSE ResolveTools(Tail(actions), handlers)

\* the early returns without the comparison of the two counts
ConfigErrorNoCount(c) ==
    IF ~c.include_tools THEN None
    ELSE IF c.registry.actions = <<>> THEN "Missing actions"
    ELSE IF ~c.registry.set \/ Cardinality(c.registry.handlers) = 0
         THEN "Missing tools handlers"
    ELSE None

\* the three early returns under "if is_tools_enabled"; "None" when there is none
ConfigError(c) ==
    IF ~c.include_tools THEN None
    ELSE IF c.registry.actions = <<>> THEN "Missing actions"
    ELSE IF ~c.registry.set \/ Cardinality(c.registry.handlers) = 0
         THEN "Missing tools handlers"
    ELSE IF Len(c.registry.actions) # Cardinality(c.registry.handlers)
         THEN "Number of actions does not match number of tool handlers"
    ELSE None

Tools(c) ==
    IF c.include_tools /\ ConfigError(c) = None
    THEN ResolveTools(c.registry.actions, c.registry.handlers)
    ELSE <<>>

\* the role conversion of the rendered messages
ToParam(msg) ==
    Msg(IF msg.role \in {"assistant", "system"} THEN msg.role ELSE "user",
        msg.content, <<>>, NoId)

NoResult == [status |-> None, error |-> None, has_message |-> FALSE,
             role |-> None, content |-> NoContent, input |-> FALSE]

ErrorResult(status, error) ==
    [status |-> status, error |-> error, has_message |-> FALSE,
     role |-> None, content |-> NoContent, input |-> FALSE]

\* a result that loses the content of the completion
SuccessResultNoContent(final) ==
    [status |-> "success", error |-> None, has_message |-> TRUE,
     role |-> final.role, content |-> NoContent,
     input |-> (Len(Rendered) - 1 > 0 /\ Rendered[Len(Rendered)].role = "user")]

\* the PromptResponse built from final_response: status defaults to success;
\* input is the last rendered message when it is a user message and not the first
SuccessResult(final) ==
    [status |-> "success", error |-> None, has_message |-> TRUE,
     role |-> final.role, content |-> final.content,
     input |-> (Len(Rendered) - 1 > 0 /\ Rendered[Len(Rendered)].role = "user")]

LoopInit ==
    /\ pc = "start"
    /\ messages = <<>>
    /\ response_message = NoCompletion
    /\ tool_calls = <<>>
    /\ final_response = NoCompletion
    /\ idx = 0
    /\ curr_message_length = 0
    /\ requests = <<>>
    /\ handler_calls = <<>>
    /\ result = NoResult
    /\ raised = None
    /\ issued = 0

Init ==
    /\ cfg \in Configs
    /\ LoopInit
    /\ memory = FreshMemory
    /\ template = DefaultTemplate
    /\ hs_calls = 0
    /\ hs_pc = "entry"
    /\ hs_pre = FreshMemory
    /\ PlanIdle

\* a return that asks the model again when the result is an API error
ReturnRetryOnError(r) ==
    /\ result' = r
    /\ pc' = IF r.status = "error" THEN "create" ELSE "done"

Return(r) ==
    /\ result' = r
    /\ pc' = "done"

Raise(exc) ==
    /\ raised' = exc
    /\ pc' = "raised"

\* lines 128-227: tool setup, rendering, message conversion
Setup ==
    /\ pc = "start"
    /\ IF ConfigError(cfg) # None
       THEN /\ Return(ErrorResult("tools_error", ConfigError(cfg)))
            /\ UNCHANGED messages
       ELSE \E too_long \in BOOLEAN :
              IF too_long
              THEN /\ Return(ErrorResult("too_long", "too_long"))
                   /\ UNCHANGED messages
              ELSE /\ messages' = [i \in 1..Len(Rendered) |-> ToParam(Rendered[i])]
                   /\ pc' = "create"
                   /\ UNCHANGED result
    /\ UNCHANGED <<cfg, response_message, tool_calls, final_response, idx,
                   curr_message_length, requests, handler_calls, raised, issued>>
    /\ UNCHANGED <<hsVars, pbVars>>

(***************************************************************************)
(* complete_prompt: the first model invocation and the loop                *)
(***************************************************************************)
ToolNamesOf(tools) == [i \in 1..Len(tools) |-> tools[i].name]

\* "x or default" of Python
Or(v, default) == IF Truthy(v) THEN v ELSE default

\* the first request with the configured parallel policy passed through
InitialRequestAsConfigured(c, msgs) ==
    [messages |-> msgs,
     tools |-> ToolNamesOf(Tools(c)),
     tool_choice |-> IF c.tool_choice.type = "NoneType" THEN "auto"
                     ELSE c.tool_choice.value,
     parallel_tool_calls |-> c.parallel_tool_calls]

\* the arguments of the first chat.completions.create
InitialRequest(c, msgs) ==
    [messages |-> msgs,
     tools |-> ToolNamesOf(Tools(c)),
     tool_choice |-> IF c.tool_choice.type = "NoneType" THEN "auto"
                     ELSE c.tool_choice.value,
     parallel_tool_calls |-> Or(c.parallel_tool_calls, "True")]

\* the arguments of the create call inside the loop: no tools, no tool policy
LoopRequest(msgs) ==
    [messages |-> msgs, tools |-> <<>>, tool_choice |-> None,
     parallel_tool_calls |-> None]

\* the guard that does not look at the augmentation
LoopEnteredAnyAugmentation(c, calls) ==
    /\ c.include_tools
    /\ Len(calls) > 0

\* the guard of the tools flow (lines 258-263)
LoopEntered(c, calls) ==
    /\ c.augmentation # None
    /\ c.augmentation = "none"
    /\ c.include_tools
    /\ Len(calls) > 0

IsPinned(c) == c.tool_choice.type = "dict"

\* the policy breaks with a limit of one round added
PolicyBreakRoundLimit(c, calls) ==
    \/ ~Truthy(c.parallel_tool_calls) /\ Len(calls) > 1
    \/ IsPinned(c) /\ Len(calls) > 1
    \/ c.tool_choice.type = "str" /\ c.tool_choice.value = "none"
    \/ Len(requests) >= 2

\* the policy breaks without the one for a pinned function
PolicyBreakNoPinned(c, calls) ==
    \/ ~Truthy(c.parallel_tool_calls) /\ Len(calls) > 1
    \/ c.tool_choice.type = "str" /\ c.tool_choice.value = "none"

\* the three breaks at the top of the loop body (lines 265-272)
PolicyBreak(c, calls) ==
    \/ ~Truthy(c.parallel_tool_calls) /\ Len(calls) > 1
    \/ IsPinned(c) /\ Len(calls) > 1
    \/ c.tool_choice.type = "str" /\ c.tool_choice.value = "none"

\* the length taken before the assistant message was appended
CurrMessageLengthBeforeAppend(msgs) == Len(msgs) - 1

\* curr_message_length = len(messages), taken after the assistant message is appended
CurrMessageLength(msgs) == Len(msgs)

\* the message the loop appends before resolving calls
AssistantMessage(m) == Msg(m.role, m.content, m.tool_calls, NoId)

ToolMessage(call, response) == Msg("tool", response, <<>>, call.id)

\* next(tool for tool in tools if tool.name == name): index of the first match,
\* 0 when the generator is exhausted (StopIteration)
FindTool(tools, name) ==
    IF \E i \in 1..Len(tools) : tools[i].name = name
    THEN CHOOSE i \in 1..Len(tools) :
            /\ tools[i].name = name
            /\ \A j \in 1..(i - 1) : tools[j].name # name
    ELSE 0

\* the comparison off by one: as many arguments as required ones are rejected too
ArgsRejectedOffByOne(required_args, curr_args) ==
    /\ Len(required_args) > 0
    /\ Len(required_args) >= Cardinality(curr_args)

\* "if required_args: if len(required_args) > len(curr_args)"
ArgsRejected(required_args, curr_args) ==
    /\ Len(required_args) > 0
    /\ Len(required_args) > Cardinality(curr_args)

\* the handler looked up under the name the call carries
HandlerCallByCallName(handler, curr_args, call) ==
    [handler |-> call.name, kwargs |-> curr_args, tool_call_id |-> call.id]

\* _handle_function_response: the handler is awaited with the parsed arguments
HandlerCall(handler, curr_args, call) ==
    [handler |-> handler, kwargs |-> curr_args, tool_call_id |-> call.id]

InitialCreate ==
    /\ pc = "create"
    /\ Len(requests) < MaxInvocations
    /\ requests' = Append(requests, InitialRequest(cfg, messages))
    /\ \/ /\ Return(ErrorResult("error", "APIError"))
          /\ UNCHANGED <<response_message, tool_calls, final_response, issued>>
       \/ \E shapes \in ShapeSeqs(MaxCalls), hasText \in BOOLEAN :
            LET completion == Completion(1, hasText, MakeCalls(shapes, issued)) IN
            /\ response_message' = completion
            /\ tool_calls' = completion.tool_calls
            /\ final_response' = completion
            /\ issued' = issued + Len(shapes)
            /\ IF LoopEntered(cfg, completion.tool_calls)
               THEN pc' = "loop" /\ UNCHANGED result
               ELSE Return(SuccessResult(completion))
    /\ UNCHANGED <<cfg, messages, idx, curr_message_length, handler_calls, raised>>
    /\ UNCHANGED <<hsVars, pbVars>>

\* the while test, the policy breaks and the append of the assistant message
LoopHead ==
    /\ pc = "loop"
    /\ IF Len(tool_calls) = 0 \/ PolicyBreak(cfg, tool_calls)
       THEN /\ Return(SuccessResult(final_response))
            /\ UNCHANGED <<messages, idx, curr_message_length>>
       ELSE /\ messages' = Append(messages, AssistantMessage(response_message))
            /\ UNCHANGED result
            /\ IF IsPinned(cfg)
               THEN pc' = "pinned" /\ UNCHANGED <<idx, curr_message_length>>
               ELSE /\ pc' = "multi"
                    /\ idx' = 1
                    /\ curr_message_length' = CurrMessageLength(messages')
    /\ UNCHANGED <<cfg, response_message, tool_calls, final_response, requests,
                   handler_calls, raised, issued>>
    /\ UNCHANGED <<hsVars, pbVars>>

\* lines 278-313: the single pinned tool
PinnedResolve ==
    /\ pc = "pinned"
    /\ LET tools == Tools(cfg)
           curr_tool_call == tool_calls[1]
           i == FindTool(tools, cfg.tool_choice.value)
       IN
       IF i = 0
       THEN /\ Raise("RuntimeError")
            /\ UNCHANGED <<messages, handler_calls, result>>
       ELSE IF ~curr_tool_call.arguments.ok
       THEN /\ Raise("JSONDecodeError")
            /\ UNCHANGED <<messages, handler_calls, result>>
       ELSE IF ArgsRejected(tools[i].required, curr_tool_call.arguments.keys)
       THEN /\ Return(SuccessResult(final_response))
            /\ UNCHANGED <<messages, handler_calls, raised>>
       ELSE /\ handler_calls' = Append(handler_calls,
                   HandlerCall(tools[i].handler, curr_tool_call.arguments.keys,
                               curr_tool_call))
            /\ messages' = Append(messages,
                   ToolMessage(curr_tool_call, Len(handler_calls')))
            /\ pc' = "reinvoke"
            /\ UNCHANGED <<result, raised>>
    /\ UNCHANGED <<cfg, response_message, tool_calls, final_response, idx,
                   curr_message_length, requests, issued>>
    /\ UNCHANGED <<hsVars, pbVars>>

\* one iteration of the for loop of _handle_multiple_tool_calls
MultiStep ==
    /\ pc = "multi"
    /\ idx <= Len(tool_calls)
    /\ LET tools == Tools(cfg)
           tool_call == tool_calls[idx]
           i == FindTool(tools, tool_call.name)
       IN
       IF i = 0
       THEN /\ Raise("RuntimeError")
            /\ UNCHANGED <<messages, handler_calls, idx>>
       ELSE IF ~tool_call.arguments.ok
       THEN /\ Raise("JSONDecodeError")
            /\ UNCHANGED <<messages, handler_calls, idx>>
       ELSE IF ArgsRejected(tools[i].required, tool_call.arguments.keys)
       THEN /\ idx' = idx + 1
            /\ UNCHANGED <<messages, handler_calls, raised, pc>>
       ELSE /\ handler_calls' = Append(handler_calls,
                   HandlerCall(tools[i].handler, tool_call.arguments.keys, tool_call))
            /\ messages' = Append(messages, ToolMessage(tool_call, Len(handler_calls')))
            /\ idx' = idx + 1
            /\ UNCHANGED <<raised, pc>>
    /\ UNCHANGED <<cfg, response_message, tool_calls, final_response,
                   curr_message_length, requests, result, issued>>
    /\ UNCHANGED <<hsVars, pbVars>>

\* lines 319-321: "No tools were run successfully"
MultiDone ==
    /\ pc = "multi"
    /\ idx > Len(tool_calls)
    /\ IF Len(messages) = curr_message_length
       THEN Return(SuccessResult(final_response))
       ELSE pc' = "reinvoke" /\ UNCHANGED result
    /\ UNCHANGED <<cfg, messages, response_message, tool_calls, final_response, idx,
                   curr_message_length, requests, handler_calls, raised, issued>>
    /\ UNCHANGED <<hsVars, pbVars>>

\* lines 323-333: the model is asked again with the extended transcript
Reinvoke ==
    /\ pc = "reinvoke"
    /\ Len(requests) < MaxInvocations
    /\ requests' = Append(requests, LoopRequest(messages))
    /\ \/ /\ Return(ErrorResult("error", "APIError"))
          /\ UNCHANGED <<tool_calls, final_response, issued>>
       \/ \E shapes \in ShapeSeqs(MaxCalls - issued), hasText \in BOOLEAN :
            LET completion ==
                  Completion(Len(requests'), hasText, MakeCalls(shapes, issued)) IN
            /\ final_response' = completion
            /\ tool_calls' = completion.tool_calls
            /\ issued' = issued + Len(shapes)
            /\ pc' = "loop"
            /\ UNCHANGED result
    /\ UNCHANGED <<cfg, messages, response_message, idx, curr_message_length,
                   handler_calls, raised>>
    /\ UNCHANGED <<hsVars, pbVars>>

Next ==
    \/ Setup
    \/ InitialCreate
    \/ LoopHead
    \/ PinnedResolve
    \/ MultiStep
    \/ MultiDone
    \/ Reinvoke

Spec == Init /\ [][Next]_vars

\* configurations under which the loop can be entered: the general case, a pinned
\* function and tool_choice "none", each with parallel calls allowed and unset
LoopConfigs ==
    { c \in Configs : /\ c.include_tools
                      /\ c.augmentation = "none"
                      /\ c.registry = DefaultRegistry
                      /\ c.tool_choice.value \in {"None", "F", "none"}
                      /\ c.parallel_tool_calls \in {"True", "None"} }

InitLive ==
    /\ Init
    /\ cfg \in LoopConfigs

\* the coroutine is driven to completion: every await (model, handler) returns
SpecLive == InitLive /\ [][Next]_vars /\ WF_vars(Next)


(***************************************************************************)
(* ActionPlanner._handle_action_tools                                      *)
(***************************************************************************)
\* memory.get("temp.action_outputs") or []
OutputsOrEmpty(v) == IF v.none THEN <<>> ELSE v.items

\* memory.get(SUBMIT_TOOL_OUTPUTS_MAP) or {}
MapOrEmpty(v) == IF v.none THEN <<>> ELSE v.map

\* the body of "for action in action_outputs" for one action
OutputFor(entry, tool_map) ==
    IF DOMAIN tool_map # {} /\ entry.name \in DOMAIN tool_map
    THEN <<HsToolMessage(tool_map[entry.name], entry.output)>>
    ELSE <<>>

\* the loop left after the first action
BuildToolOutputsFirstOnly(action_outputs, tool_map) ==
    IF action_outputs = <<>> THEN <<>>
    ELSE OutputFor(Head(action_outputs), tool_map)

RECURSIVE BuildToolOutputs(_, _)
\* the for loop: tool_outputs in the iteration order of action_outputs
BuildToolOutputs(action_outputs, tool_map) ==
    IF action_outputs = <<>> THEN <<>>
    ELSE OutputFor(Head(action_outputs), tool_map)
            \o BuildToolOutputs(Tail(action_outputs), tool_map)

\* "if not memory.get(SUBMIT_TOOL_OUTPUTS_VARIABLE)"
IsFreshTurn(flag) == ~Truthy(flag)

\* "elif memory.get(SUBMIT_TOOL_OUTPUTS_VARIABLE) is True"
IsAwaitingSubmission(flag) == flag = "True"

\* the reset that leaves the staged messages in place
FreshTurnKeepStaged(mem, tpl) ==
    [mem EXCEPT !.tool_choice = tpl.tool_choice,
                !.parallel_tool_calls = tpl.parallel_tool_calls,
                !.tool_map = [none |-> FALSE, map |-> <<>>]]

\* the first branch: policy into scratch state, both maps reset
FreshTurn(mem, tpl) ==
    [mem EXCEPT !.tool_choice = tpl.tool_choice,
                !.parallel_tool_calls = tpl.parallel_tool_calls,
                !.tool_map = [none |-> FALSE, map |-> <<>>],
                !.staged = EmptyDictValue]

\* the staging that consumes the submission: flag cleared once outputs are staged
SubmitToolOutputsConsumes(mem) ==
    LET tool_outputs == BuildToolOutputs(OutputsOrEmpty(mem.action_outputs),
                                         MapOrEmpty(mem.tool_map))
    IN  IF Len(tool_outputs) > 0
        THEN [mem EXCEPT !.flag = "False",
                         !.staged = [kind |-> "list", items |-> tool_outputs]]
        ELSE [mem EXCEPT !.flag = "False",
                         !.tool_map = [none |-> FALSE, map |-> <<>>],
                         !.staged = EmptyDictValue]

\* the reset that forgets to clear the output map
SubmitToolOutputsKeepMap(mem) ==
    LET tool_outputs == BuildToolOutputs(OutputsOrEmpty(mem.action_outputs),
                                         MapOrEmpty(mem.tool_map))
    IN  IF Len(tool_outputs) > 0
        THEN [mem EXCEPT !.staged = [kind |-> "list", items |-> tool_outputs]]
        ELSE [mem EXCEPT !.flag = "False",
                         !.staged = EmptyDictValue]

\* the second branch: stage the outputs, or reset when none matched
SubmitToolOutputs(mem) ==
    LET tool_outputs == BuildToolOutputs(OutputsOrEmpty(mem.action_outputs),
                                         MapOrEmpty(mem.tool_map))
    IN  IF Len(tool_outputs) > 0
        THEN [mem EXCEPT !.staged = [kind |-> "list", items |-> tool_outputs]]
        ELSE [mem EXCEPT !.flag = "False",
                         !.tool_map = [none |-> FALSE, map |-> <<>>],
                         !.staged = EmptyDictValue]

HandleActionToolsResult(mem, tpl) ==
    IF IsFreshTurn(mem.flag) THEN FreshTurn(mem, tpl)
    ELSE IF IsAwaitingSubmission(mem.flag) THEN SubmitToolOutputs(mem)
    ELSE mem

HandleActionTools ==
    /\ hs_calls < MaxTurns
    /\ hs_pre' = memory
    /\ memory' = HandleActionToolsResult(memory, template)
    /\ hs_calls' = hs_calls + 1
    /\ hs_pc' = "returned"
    /\ UNCHANGED template
    /\ UNCHANGED <<loopVars, pbVars>>

\* between two turns the host (plan consumer) rewrites one of the flag, the action
\* outputs and the output map
HostUpdate ==
    /\ hs_calls >= 1
    /\ hs_calls < MaxTurns
    /\ \/ \E f \in FlagValues : memory' = [memory EXCEPT !.flag = f]
       \/ \E o \in ActionOutputValues : memory' = [memory EXCEPT !.action_outputs = o]
       \/ \E m \in ToolMapValues : memory' = [memory EXCEPT !.tool_map = m]
    /\ hs_pc' = "entry"
    /\ hs_pre' = memory'
    /\ UNCHANGED <<template, hs_calls>>
    /\ UNCHANGED <<loopVars, pbVars>>

InitHandshake ==
    /\ cfg = CHOOSE c \in Configs : TRUE
    /\ LoopInit
    /\ memory \in MemoryStates
    /\ template \in Templates
    /\ hs_calls = 0
    /\ hs_pc = "entry"
    /\ hs_pre = memory
    /\ PlanIdle

NextHandshake ==
    \/ HandleActionTools
    \/ HostUpdate

SpecHandshake == InitHandshake /\ [][NextHandshake]_vars


(***************************************************************************)
(* Properties of the resolution loop                                       *)
(***************************************************************************)
\* the ids of the calls of the completion the loop is looking at
CurrentIds == { tool_calls[i].id : i \in 1..Len(tool_calls) }

HandlerCallsFor(ids) == { i \in 1..Len(handler_calls) : handler_calls[i].tool_call_id \in ids }

ToolOutputsFor(ids) ==
    { i \in 1..Len(messages) : messages[i].role = "tool" /\ messages[i].tool_call_id \in ids }

AssistantMessages == { i \in 1..Len(messages) : messages[i].role = "assistant" }

\* the turn has received its first completion
Completed == response_message.n = 1

\* C1: when the initial completion carries no tool calls, the model has been invoked
\* exactly once, no handler has run, the transcript is the rendered one, and the turn
\* has returned status success with the role and content of that completion.
C1_NoToolCallsSingleInvocation ==
    (Completed /\ Len(response_message.tool_calls) = 0) =>
        /\ Len(requests) = 1
        /\ Len(handler_calls) = 0
        /\ messages = [i \in 1..Len(Rendered) |-> ToParam(Rendered[i])]
        /\ pc = "done"
        /\ raised = None
        /\ result.status = "success"
        /\ result.has_message
        /\ result.role = response_message.role
        /\ result.content = response_message.content

C1_Witness ==
    /\ Completed
    /\ Len(response_message.tool_calls) = 0
    /\ cfg.include_tools
    /\ cfg.augmentation = "none"
    /\ pc = "done"
    /\ result.content = 1

\* the pinned function is in the resolved tool list
PinnedRegistered == FindTool(Tools(cfg), cfg.tool_choice.value) # 0

\* the completion at hand is a single call to the pinned function whose parsed
\* arguments hold every required argument of its schema
PinnedCallComplete ==
    /\ IsPinned(cfg)
    /\ cfg.include_tools
    /\ cfg.augmentation = "none"
    /\ PinnedRegistered
    /\ Len(tool_calls) = 1
    /\ tool_calls[1].name = cfg.tool_choice.value
    /\ tool_calls[1].arguments.ok
    /\ \A i \in 1..Len(RequiredOf(cfg.tool_choice.value)) :
          RequiredOf(cfg.tool_choice.value)[i] \in tool_calls[1].arguments.keys

\* C2: with tool_choice pinning F and a completion of one call to F with all required
\* arguments, the turn leaves that completion only through the handler of F: once past
\* the pinned step, F's handler has run exactly once for that call, exactly one tool
\* message with the call's id follows the assistant message at the end of the
\* transcript, and the turn ends only after one more model invocation; a pinned turn
\* that ends on a completion without calls has run one handler and appended two
\* messages per earlier completion.
C2_PinnedCallResolvedOnce ==
    /\ (PinnedCallComplete /\ pc \notin {"loop", "pinned"}) =>
          /\ raised = None
          /\ Cardinality(HandlerCallsFor(CurrentIds)) = 1
          /\ handler_calls[Len(handler_calls)] =
                [handler |-> cfg.tool_choice.value,
                 kwargs |-> tool_calls[1].arguments.keys,
                 tool_call_id |-> tool_calls[1].id]
          /\ Cardinality(ToolOutputsFor(CurrentIds)) = 1
          /\ messages[Len(messages)].role = "tool"
          /\ messages[Len(messages)].tool_call_id = tool_calls[1].id
          /\ messages[Len(messages) - 1].role = "assistant"
          /\ \/ pc = "reinvoke" /\ Len(requests) = final_response.n
             \/ pc = "done" /\ Len(requests) = final_response.n + 1
                            /\ result.status = "error"
    /\ (IsPinned(cfg) /\ pc = "done" /\ result.status = "success"
            /\ Len(final_response.tool_calls) = 0) =>
          /\ Len(requests) = final_response.n
          /\ Len(handler_calls) = final_response.n - 1
          /\ Len(messages) = Len(Rendered) + 2 * (final_response.n - 1)

C2_Witness ==
    /\ IsPinned(cfg)
    /\ cfg.tool_choice.value = "F"
    /\ pc = "done"
    /\ result.status = "success"
    /\ final_response.n = 2
    /\ Len(final_response.tool_calls) = 0
    /\ Len(handler_calls) = 1
    /\ handler_calls[1].handler = "F"
    /\ handler_calls[1].kwargs = {"a"}
    /\ response_message.tool_calls[1].name = "F"


\* the loop is entered for this configuration and the general (non-pinned) branch runs
GeneralCase ==
    /\ cfg.include_tools
    /\ cfg.augmentation = "none"
    /\ ~IsPinned(cfg)
    /\ ~(cfg.tool_choice.type = "str" /\ cfg.tool_choice.value = "none")

Registered(name) == FindTool(Tools(cfg), name) # 0

\* the call parses and holds every argument name its tool's schema requires
HasRequired(call) ==
    /\ call.arguments.ok
    /\ \A i \in 1..Len(RequiredOf(call.name)) :
          RequiredOf(call.name)[i] \in call.arguments.keys

Resolvable(call) == Registered(call.name) /\ HasRequired(call)

UnregisteredCalls == { i \in 1..Len(tool_calls) : ~Registered(tool_calls[i].name) }

\* C3: in the general case a completion of three calls, one naming an unregistered
\* tool and two resolvable, raises no error; once the round is over no handler has
\* run for the unregistered call, exactly two tool messages answer the completion
\* and the turn ends only after one more model invocation.
C3_UnregisteredCallSkipped ==
    ( /\ GeneralCase
      /\ Truthy(cfg.parallel_tool_calls)
      /\ Len(tool_calls) = 3
      /\ Cardinality(UnregisteredCalls) = 1
      /\ \A i \in (1..3) \ UnregisteredCalls : Resolvable(tool_calls[i]) ) =>
        /\ raised = None
        /\ \A i \in UnregisteredCalls :
              /\ HandlerCallsFor({tool_calls[i].id}) = {}
              /\ ToolOutputsFor({tool_calls[i].id}) = {}
        /\ pc \in {"reinvoke", "done"} =>
              /\ Cardinality(ToolOutputsFor(CurrentIds)) = 2
              /\ Cardinality(HandlerCallsFor(CurrentIds)) = 2
        /\ pc = "done" => Len(requests) = final_response.n + 1

\* C4: in the general case no handler runs, and no tool message is emitted, for a call
\* whose parsed arguments lack a required argument name of its tool, while every
\* resolvable sibling of a finished round has exactly one handler run and one tool
\* message.
C4_MissingRequiredSkipped ==
    GeneralCase =>
        \A i \in 1..Len(tool_calls) :
            /\ ( /\ Registered(tool_calls[i].name)
                 /\ tool_calls[i].arguments.ok
                 /\ ~HasRequired(tool_calls[i]) ) =>
                    /\ HandlerCallsFor({tool_calls[i].id}) = {}
                    /\ ToolOutputsFor({tool_calls[i].id}) = {}
            /\ ( /\ pc = "reinvoke"
                 /\ Resolvable(tool_calls[i]) ) =>
                    /\ Cardinality(HandlerCallsFor({tool_calls[i].id})) = 1
                    /\ Cardinality(ToolOutputsFor({tool_calls[i].id})) = 1

\* C5: in the pinned case, when the pinned function is not in the resolved tool list
\* or the first call's parsed arguments lack a required argument, nothing is raised,
\* no handler runs and no tool message is appended for that completion, no further
\* model invocation happens, and the turn returns that completion with the assistant
\* message left in the transcript.
C5_PinnedAbort ==
    ( /\ IsPinned(cfg)
      /\ cfg.include_tools
      /\ cfg.augmentation = "none"
      /\ Len(tool_calls) = 1
      /\ tool_calls[1].arguments.ok
      /\ \/ ~PinnedRegistered
         \/ \E i \in 1..Len(RequiredOf(cfg.tool_choice.value)) :
               RequiredOf(cfg.tool_choice.value)[i] \notin tool_calls[1].arguments.keys ) =>
        /\ raised = None
        /\ pc # "reinvoke"
        /\ HandlerCallsFor(CurrentIds) = {}
        /\ ToolOutputsFor(CurrentIds) = {}
        /\ Len(requests) = final_response.n
        /\ pc = "done" =>
              /\ result.status = "success"
              /\ result.content = final_response.content
              /\ messages[Len(messages)].role = "assistant"

\* the three policy boundaries, stated on the configuration and the calls at hand
PolicyBoundary ==
    /\ Len(tool_calls) > 0
    /\ \/ cfg.parallel_tool_calls \in {"None", "False"} /\ Len(tool_calls) > 1
       \/ cfg.tool_choice.type = "dict" /\ Len(tool_calls) > 1
       \/ cfg.tool_choice = [type |-> "str", value |-> "none"]

\* C6: a completion with tool calls that meets a policy boundary (parallel disallowed
\* and more than one call, a pinned function and more than one call, tool_choice
\* "none") ends the loop: no handler runs for its calls, its assistant message is not
\* appended, the model is not invoked again, nothing is raised, and the turn returns
\* that completion with status success.
C6_PolicyTermination ==
    (Completed /\ PolicyBoundary /\ final_response.tool_calls = tool_calls) =>
        /\ pc \in {"loop", "done"}
        /\ raised = None
        /\ HandlerCallsFor(CurrentIds) = {}
        /\ ToolOutputsFor(CurrentIds) = {}
        /\ Len(handler_calls) = Cardinality(ToolOutputsFor(1..issued))
        /\ Cardinality(AssistantMessages) = final_response.n - 1
        /\ Len(requests) = final_response.n
        /\ pc = "done" =>
              /\ result.status = "success"
              /\ result.role = final_response.role
              /\ result.content = final_response.content

C6_Witness ==
    /\ pc = "done"
    /\ PolicyBoundary
    /\ cfg.include_tools
    /\ cfg.augmentation = "none"
    /\ cfg.parallel_tool_calls = "False"
    /\ final_response.n = 2
    /\ Len(tool_calls) = 2
    /\ Len(handler_calls) = 1
    /\ result.status = "success"
    /\ result.content = 2

\* a round of the general case has run through all its calls without an error and
\* without emitting one output: the assistant message is still the last message
RoundWithoutOutput ==
    /\ GeneralCase
    /\ raised = None
    /\ Len(tool_calls) > 0
    /\ messages # <<>>
    /\ messages[Len(messages)].role = "assistant"
    /\ pc = "multi" => idx > Len(tool_calls)

\* C7: in the general case a round in which every call was skipped ends the loop:
\* the model is not invoked again and the turn returns the completion that
\* requested those calls.
C7_NoOutputTermination ==
    RoundWithoutOutput =>
        /\ pc \in {"multi", "done"}
        /\ HandlerCallsFor(CurrentIds) = {}
        /\ Len(requests) = final_response.n
        /\ final_response.tool_calls = tool_calls
        /\ pc = "done" =>
              /\ result.status = "success"
              /\ result.role = final_response.role
              /\ result.content = final_response.content

C7_Witness ==
    /\ RoundWithoutOutput
    /\ pc = "done"
    /\ Len(tool_calls) = 2
    /\ final_response.n = 2
    /\ result.status = "success"
    /\ result.content = 2

(***************************************************************************)
(* Properties of the submission handshake                                  *)
(***************************************************************************)
\* _handle_action_tools has just returned; hs_pre is the store it was entered with
Returned == hs_pc = "returned"

PreOutputs == OutputsOrEmpty(hs_pre.action_outputs)

PreMap == MapOrEmpty(hs_pre.tool_map)

\* positions of the supplied outputs whose action name has a stored correlation id
Matched == { i \in 1..Len(PreOutputs) : PreOutputs[i].name \in DOMAIN PreMap }

Rank(i) == Cardinality({ j \in Matched : j <= i })

\* C8: a resume (flag true) stages exactly one tool-output message per action name
\* that is both in action_outputs and in the stored OutputMap, carrying the stored id
\* and the supplied output, and none for another name; with at least one message
\* staged the flag remains true.
C8_ResumeStagesMatchedOutputs ==
    (Returned /\ hs_pre.flag = "True" /\ Matched # {}) =>
        /\ memory.staged.kind = "list"
        /\ Len(memory.staged.items) = Cardinality(Matched)
        /\ \A i \in Matched :
              memory.staged.items[Rank(i)] =
                  [tool_call_id |-> PreMap[PreOutputs[i].name],
                   role |-> "tool",
                   content |-> PreOutputs[i].output]
        /\ memory.flag = "True"

C8_Witness ==
    /\ Returned
    /\ hs_pre.flag = "True"
    /\ Cardinality(Matched) = 2
    /\ Len(memory.staged.items) = 2
    /\ memory.staged.items[1].tool_call_id # memory.staged.items[2].tool_call_id
    /\ memory.staged.items[1].content # memory.staged.items[2].content

\* C9: a resume (flag true) in which no supplied action name has a stored id sets the
\* flag to false and leaves OutputMap and PendingOutputMessages empty.
C9_ResumeWithoutMatchResets ==
    (Returned /\ hs_pre.flag = "True" /\ Matched = {}) =>
        /\ memory.flag = "False"
        /\ memory.tool_map = [none |-> FALSE, map |-> <<>>]
        /\ memory.staged = [kind |-> "dict", items |-> <<>>]

C9_Witness ==
    /\ Returned
    /\ hs_pre.flag = "True"
    /\ Matched = {}
    /\ Len(PreOutputs) > 0
    /\ DOMAIN PreMap # {}
    /\ hs_pre.staged.kind = "list"
    /\ memory.flag = "False"

\* the effect of a fresh turn on the store
TreatedAsFresh ==
    /\ memory.tool_choice = template.tool_choice
    /\ memory.parallel_tool_calls = template.parallel_tool_calls
    /\ memory.tool_map = [none |-> FALSE, map |-> <<>>]
    /\ memory.staged = [kind |-> "dict", items |-> <<>>]

\* C10: the handshake takes the resume path if and only if the flag is exactly true;
\* with every other flag value the turn is a fresh turn: the policy of the template is
\* in scratch state and OutputMap and PendingOutputMessages are empty.
C10_FreshUnlessExactlyTrue ==
    Returned =>
        IF hs_pre.flag = "True"
        THEN /\ memory.tool_choice = hs_pre.tool_choice
             /\ memory.parallel_tool_calls = hs_pre.parallel_tool_calls
        ELSE TreatedAsFresh


\* C11: entered with the flag absent or false, the handshake leaves the template's
\* tool_choice and parallel_tool_calls in scratch state and OutputMap and
\* PendingOutputMessages empty whatever they held, and does not touch the flag nor
\* action_outputs.
C11_IdleEntryResets ==
    (Returned /\ hs_pre.flag \in {"None", "False"}) =>
        /\ memory.tool_choice = template.tool_choice
        /\ memory.parallel_tool_calls = template.parallel_tool_calls
        /\ memory.tool_map = [none |-> FALSE, map |-> <<>>]
        /\ memory.staged = [kind |-> "dict", items |-> <<>>]
        /\ memory.flag = hs_pre.flag
        /\ memory.action_outputs = hs_pre.action_outputs

C11_Witness ==
    /\ Returned
    /\ hs_pre.flag = "False"
    /\ hs_pre.staged.kind = "list"
    /\ DOMAIN MapOrEmpty(hs_pre.tool_map) = HsNames
    /\ Len(PreOutputs) = 2
    /\ hs_pre.tool_choice # template.tool_choice
    /\ memory.staged.kind = "dict"
    /\ memory.flag = "False"


(***************************************************************************)
(* ToolsAugmentation.validate_response / create_plan_from_response and     *)
(* ActionPlanner.continue_task                                             *)
(***************************************************************************)
\* truthiness of Message.action_calls
HasActionCalls(msg) == ~msg.action_calls.none /\ Len(msg.action_calls.calls) > 0

\* the validator that leaves the store alone when it extracts no value
ValidateResponseResultNoSet(actions, st, resp) ==
    IF /\ resp.has_message
       /\ HasActionCalls(resp.message)
       /\ StoreHas(st)
       /\ actions
    THEN [valid |-> TRUE, has_value |-> TRUE,
          value |-> resp.message.action_calls.calls, store |-> st]
    ELSE [valid |-> TRUE, has_value |-> FALSE, value |-> <<>>, store |-> st]

\* the validator that does not look at the tracking key
ValidateResponseResultNoKey(actions, st, resp) ==
    IF /\ resp.has_message
       /\ HasActionCalls(resp.message)
       /\ actions
    THEN [valid |-> TRUE, has_value |-> TRUE,
          value |-> resp.message.action_calls.calls, store |-> st]
    ELSE [valid |-> TRUE, has_value |-> FALSE, value |-> <<>>,
          store |-> StoreSet(st, <<>>)]

\* lines 68-79: the Validation and the store after validate_response
ValidateResponseResult(actions, st, resp) ==
    IF /\ resp.has_message
       /\ HasActionCalls(resp.message)
       /\ StoreHas(st)
       /\ actions
       /\ Len(resp.message.action_calls.calls) > 0
    THEN [valid |-> TRUE, has_value |-> TRUE,
          value |-> resp.message.action_calls.calls, store |-> st]
    ELSE [valid |-> TRUE, has_value |-> FALSE, value |-> <<>>,
          store |-> StoreSet(st, <<>>)]

\* truthiness of Message.content: None, "" and [] are falsy
ContentTruthy(content) ==
    \/ content.kind = "str" /\ content.text # ""
    \/ content.kind = "list" /\ Len(content.calls) > 0

PredictedDoCommand(action, parameters) ==
    [type |-> "DO", action |-> action, parameters |-> parameters, response |-> NoMessage]

PredictedSayCommand(msg) ==
    [type |-> "SAY", action |-> "", parameters |-> {}, response |-> msg]

Plan(commands) == [raised |-> None, commands |-> commands]

Raised(exc) == [raised |-> exc, commands |-> <<>>]

RECURSIVE BuildCommandsReversed(_)
\* the loop that prepends instead of appending
BuildCommandsReversed(calls) ==
    IF calls = <<>> THEN Plan(<<>>)
    ELSE LET tool == Head(calls)
             parsed == JsonLoads(tool.arguments)
         IN  IF ~parsed.ok THEN Raised("JSONDecodeError")
             ELSE LET rest == BuildCommandsReversed(Tail(calls)) IN
                  IF rest.raised # None THEN rest
                  ELSE Plan(rest.commands
                                \o <<PredictedDoCommand(tool.name, parsed.keys)>>)

RECURSIVE BuildCommandsPartial(_)
\* the loop that swallows the parse error and returns the commands built so far
BuildCommandsPartial(calls) ==
    IF calls = <<>> THEN Plan(<<>>)
    ELSE LET tool == Head(calls)
             parsed == JsonLoads(tool.arguments)
         IN  IF ~parsed.ok THEN Plan(<<>>)
             ELSE Plan(<<PredictedDoCommand(tool.name, parsed.keys)>>
                           \o BuildCommandsPartial(Tail(calls)).commands)

RECURSIVE BuildCommands(_)
\* the for loop of lines 106-111: json.loads raising leaves the function
BuildCommands(calls) ==
    IF calls = <<>> THEN Plan(<<>>)
    ELSE LET tool == Head(calls)
             parsed == JsonLoads(tool.arguments)
         IN  IF ~parsed.ok THEN Raised("JSONDecodeError")
             ELSE LET rest == BuildCommands(Tail(calls)) IN
                  IF rest.raised # None THEN rest
                  ELSE Plan(<<PredictedDoCommand(tool.name, parsed.keys)>>
                                \o rest.commands)

\* lines 100-115: what create_plan_from_response returns or raises
CreatePlanFromResponse(st, resp) ==
    IF resp.has_message /\ ContentTruthy(resp.message.content)
    THEN IF StoreHas(st) /\ resp.message.content.kind = "list"
         THEN BuildCommands(resp.message.content.calls)
         ELSE Plan(<<PredictedSayCommand(resp.message)>>)
    ELSE Plan(<<>>)

\* a plan builder that consumes the tracking key
PlanStoreEffectClears(st, resp) == [has |-> FALSE, value |-> <<>>]

\* create_plan_from_response calls memory.has only: the store after it
PlanStoreEffect(st, resp) == st

\* the check that lets too_long and tools_error through
BlocksPlanErrorOnly(status) == status = "error"

\* "if res.status != 'success': raise ApplicationError"
BlocksPlan(status) == status # "success"

ValidateResponse ==
    /\ pb_pc = "start"
    /\ LET v == ValidateResponseResult(aug_actions, store, prompt_response) IN
       /\ validation' = [valid |-> v.valid, has_value |-> v.has_value, value |-> v.value]
       /\ store' = v.store
    /\ pb_pre' = [store |-> store, response |-> prompt_response]
    /\ pb_pc' = "validated"
    /\ UNCHANGED <<aug_actions, prompt_response, plans>>
    /\ UNCHANGED <<loopVars, hsVars>>

\* continue_task after complete_prompt has returned
ContinueTask ==
    /\ pb_pc \in {"start", "validated"}
    /\ IF BlocksPlan(prompt_response.status)
       THEN /\ pb_pc' = "ApplicationError"
            /\ UNCHANGED <<store, plans, pb_pre>>
       ELSE /\ plans' = Append(plans, CreatePlanFromResponse(store, prompt_response))
            /\ store' = PlanStoreEffect(store, prompt_response)
            /\ pb_pre' = [store |-> store, response |-> prompt_response]
            /\ pb_pc' = "planned"
    /\ UNCHANGED <<aug_actions, prompt_response, validation>>
    /\ UNCHANGED <<loopVars, hsVars>>

\* create_plan_from_response run once more on the same response and store
CreatePlanAgain ==
    /\ pb_pc = "planned"
    /\ Len(plans) < MaxPlanRuns
    /\ plans' = Append(plans, CreatePlanFromResponse(store, prompt_response))
    /\ store' = PlanStoreEffect(store, prompt_response)
    /\ pb_pre' = [store |-> store, response |-> prompt_response]
    /\ UNCHANGED <<aug_actions, prompt_response, validation, pb_pc>>
    /\ UNCHANGED <<loopVars, hsVars>>

InitPlan ==
    /\ cfg = CHOOSE c \in Configs : TRUE
    /\ LoopInit
    /\ memory = FreshMemory
    /\ template = DefaultTemplate
    /\ hs_calls = 0
    /\ hs_pc = "entry"
    /\ hs_pre = FreshMemory
    /\ aug_actions \in BOOLEAN
    /\ store \in StoreValues
    /\ prompt_response \in Responses
    /\ pb_pc = "start"
    /\ validation = NoValidation
    /\ plans = <<>>
    /\ pb_pre = [store |-> store, response |-> prompt_response]

NextPlan ==
    \/ ValidateResponse
    \/ ContinueTask
    \/ CreatePlanAgain

SpecPlan == InitPlan /\ [][NextPlan]_vars


(***************************************************************************)
(* Properties of the plan builder and the validator                        *)
(***************************************************************************)
\* create_plan_from_response has just run; pb_pre is what it was called with
Planned == pb_pc = "planned" /\ Len(plans) > 0

LastPlan == plans[Len(plans)]

PlanContent == pb_pre.response.message.content

\* the condition of the DoCommand branch: tracking key present, content a list
DoCondition == StoreHas(pb_pre.store) /\ PlanContent.kind = "list"

AllParse(calls) == \A i \in 1..Len(calls) : JsonLoads(calls[i].arguments).ok

\* C12: with the tracking key in the store and a content that is a non-empty list of
\* n action calls (whose arguments parse), the plan has exactly n DoCommands in call
\* order, the i-th with the i-th call's function name and parsed arguments.
C12_PlanOfDoCommands ==
    (Planned /\ DoCondition /\ Len(PlanContent.calls) > 0 /\ AllParse(PlanContent.calls)) =>
        /\ LastPlan.raised = None
        /\ Len(LastPlan.commands) = Len(PlanContent.calls)
        /\ \A i \in 1..Len(PlanContent.calls) :
              /\ LastPlan.commands[i].type = "DO"
              /\ LastPlan.commands[i].action = PlanContent.calls[i].name
              /\ LastPlan.commands[i].parameters =
                    JsonLoads(PlanContent.calls[i].arguments).keys

C12_Witness ==
    /\ Planned
    /\ DoCondition
    /\ Len(PlanContent.calls) = 2
    /\ Len(LastPlan.commands) = 2
    /\ LastPlan.commands[1].action = "F"
    /\ LastPlan.commands[1].parameters = {"a"}
    /\ LastPlan.commands[2].action = "G"
    /\ LastPlan.commands[2].parameters = {}

\* the response carries textual content
TextualContent == PlanContent.kind = "str" /\ PlanContent.text # ""

\* C13: when the DoCommand condition does not hold, the plan is one SayCommand equal
\* to the input message if the response carries textual content, and has zero
\* commands in every other case.
C13_SayOrEmptyPlan ==
    (Planned /\ ~DoCondition) =>
        /\ LastPlan.raised = None
        /\ IF pb_pre.response.has_message /\ TextualContent
           THEN LastPlan.commands = <<PredictedSayCommand(pb_pre.response.message)>>
           ELSE LastPlan.commands = <<>>

C15_NonSuccessBlocksPlan ==
    /\ prompt_response.status # "success" =>
          /\ plans = <<>>
          /\ pb_pc \in {"start", "validated", "ApplicationError"}
    /\ pb_pc = "ApplicationError" => prompt_response.status # "success"

C15_Witness ==
    /\ pb_pc = "ApplicationError"
    /\ prompt_response.status = "tools_error"
    /\ prompt_response.has_message
    /\ prompt_response.message.content.kind = "list"
    /\ Len(prompt_response.message.content.calls) = 1
    /\ StoreHas(store)
    /\ plans = <<>>

\* validate_response has just run; pb_pre is what it was called with
Validated == pb_pc = "validated"

\* C18: validate_response returns the action calls as value only if the response
\* carries at least one action call and the store has the tracking key; in every
\* other case it sets the tracking key to the empty list and returns a valid result
\* without value.
C18_ValidationOfToolCalls ==
    Validated =>
        /\ validation.valid
        /\ validation.has_value =>
              /\ pb_pre.response.has_message
              /\ ~pb_pre.response.message.action_calls.none
              /\ Len(pb_pre.response.message.action_calls.calls) >= 1
              /\ pb_pre.store.has
              /\ validation.value = pb_pre.response.message.action_calls.calls
        /\ ~validation.has_value =>
              /\ validation.value = <<>>
              /\ store = [has |-> TRUE, value |-> <<>>]

C18_Witness ==
    /\ Validated
    /\ ~validation.has_value
    /\ pb_pre.response.has_message
    /\ Len(pb_pre.response.message.action_calls.calls) = 1
    /\ ~pb_pre.store.has
    /\ aug_actions
    /\ store = [has |-> TRUE, value |-> <<>>]

\* C19: in the DoCommand branch, if the arguments of any action call fail to parse,
\* create_plan_from_response raises and returns no plan, not even the commands of the
\* calls before the malformed one, and the store is unchanged.
C19_MalformedArgumentsFatal ==
    (Planned /\ DoCondition /\ ~AllParse(PlanContent.calls)) =>
        /\ LastPlan.raised = "JSONDecodeError"
        /\ LastPlan.commands = <<>>
        /\ store = pb_pre.store

C19_Witness ==
    /\ Planned
    /\ DoCondition
    /\ Len(PlanContent.calls) = 2
    /\ JsonLoads(PlanContent.calls[1].arguments).ok
    /\ ~JsonLoads(PlanContent.calls[2].arguments).ok
    /\ LastPlan.raised = "JSONDecodeError"


(***************************************************************************)
(* Properties of the error paths and of the order of a round               *)
(***************************************************************************)
ToolsMisconfigured ==
    /\ cfg.include_tools
    /\ \/ cfg.registry.actions = <<>>
       \/ ~cfg.registry.set
       \/ cfg.registry.handlers = {}
       \/ Len(cfg.registry.actions) # Cardinality(cfg.registry.handlers)

\* C16: with tools enabled and no actions, no handlers, or a different number of
\* actions and handlers, complete_prompt returns tools_error with no model invocation,
\* no handler invocation and no rendered transcript.
C16_ConfigurationError ==
    (ToolsMisconfigured /\ pc # "start") =>
        /\ pc = "done"
        /\ result.status = "tools_error"
        /\ ~result.has_message
        /\ raised = None
        /\ requests = <<>>
        /\ handler_calls = <<>>
        /\ messages = <<>>

C16_Witness ==
    /\ pc = "done"
    /\ result.status = "tools_error"
    /\ cfg.registry.actions = <<"F">>
    /\ cfg.registry.handlers = {"F", "G"}
    /\ requests = <<>>

\* the last model invocation has no completion: it failed with an API error
Failed == Len(requests) > final_response.n

\* C17: when a model invocation, the first or a later one, fails with an API error,
\* complete_prompt has returned status error without message, and that invocation is
\* the last one: nothing is retried and nothing more runs.
C17_ApiErrorNoRetry ==
    Failed =>
        /\ pc = "done"
        /\ result.status = "error"
        /\ ~result.has_message
        /\ raised = None
        /\ Len(requests) = final_response.n + 1
        /\ \A i \in 1..Len(handler_calls) :
              handler_calls[i].tool_call_id \in 1..issued

C17_Witness ==
    /\ Failed
    /\ pc = "done"
    /\ result.status = "error"
    /\ Len(requests) = 2
    /\ Len(handler_calls) = 1

\* a round is under way: the assistant message is appended, the next model
\* invocation has not started
InRound == pc \in {"pinned", "multi", "reinvoke"}

LastAssistant == CHOOSE a \in AssistantMessages : \A b \in AssistantMessages : b <= a

\* the tool outputs of the round so far come after the assistant message, in call
\* order, one per handler run, and model invocation k + 1 has not started
RoundOrdered ==
    /\ AssistantMessages # {}
    /\ \A i \in (LastAssistant + 1)..Len(messages) :
          /\ messages[i].role = "tool"
          /\ messages[i].tool_call_id \in CurrentIds
          /\ messages[i].content \in 1..Len(handler_calls)
          /\ handler_calls[messages[i].content].tool_call_id = messages[i].tool_call_id
          /\ \A j \in (i + 1)..Len(messages) :
                /\ messages[i].tool_call_id < messages[j].tool_call_id
                /\ messages[i].content < messages[j].content
    /\ Cardinality(HandlerCallsFor(CurrentIds)) = Len(messages) - LastAssistant
    /\ Len(requests) = final_response.n

\* C20: in every round k the assistant tool-call message of completion k is appended
\* first, then the handlers of the round run one at a time in call order, each output
\* appended before the next handler starts, and model invocation k + 1 starts only
\* after all of them.
C20_RoundsStrictlyOrdered ==
    InRound =>
        /\ RoundOrdered
        /\ messages[LastAssistant] = AssistantMessage(final_response)


(***************************************************************************)
(* Properties of the transcript at a re-invocation                         *)
(***************************************************************************)
\* the model is about to be asked again
AtReinvocation == pc = "reinvoke"

\* the messages appended since the previous model invocation
AppendedSinceInvocation ==
    SubSeq(messages, Len(requests[Len(requests)].messages) + 1, Len(messages))

IdsOf(calls) == { calls[i].id : i \in 1..Len(calls) }

\* C21: at every re-invocation the messages appended since the previous model
\* invocation are one assistant tool-call message followed by at least one tool-output
\* message, each carrying the id of a distinct call of that assistant message, in call
\* order, and never an id of an earlier completion or one the model did not return.
C21_TranscriptAtReinvocation ==
    AtReinvocation =>
        LET new == AppendedSinceInvocation IN
        /\ Len(new) >= 2
        /\ new[1].role = "assistant"
        /\ Len(new[1].tool_calls) > 0
        /\ \A i \in 2..Len(new) :
              /\ new[i].role = "tool"
              /\ new[i].tool_call_id \in IdsOf(new[1].tool_calls)
              /\ new[i].tool_call_id \in CurrentIds
              /\ \A j \in (i + 1)..Len(new) : new[i].tool_call_id < new[j].tool_call_id


(***************************************************************************)
(* Properties of the handshake over several turns                          *)
(***************************************************************************)
\* C23: a resume with at least one matching output leaves the flag, the OutputMap and
\* action_outputs unchanged; a turn only ever leaves the OutputMap unchanged or empties
\* it; and as long as the store is not changed in between, the next turn is a resume
\* again and stages the same tool-output messages.
C23_SubmissionNotConsumed ==
    Returned =>
        /\ \/ memory.tool_map = hs_pre.tool_map
           \/ memory.tool_map = [none |-> FALSE, map |-> <<>>]
        /\ (hs_pre.flag = "True" /\ Matched # {}) =>
              /\ memory.flag = hs_pre.flag
              /\ memory.tool_map = hs_pre.tool_map
              /\ memory.action_outputs = hs_pre.action_outputs
              /\ IsAwaitingSubmission(memory.flag)
              /\ HandleActionToolsResult(memory, template) = memory

C23_Witness ==
    /\ Returned
    /\ hs_calls = 2
    /\ hs_pre.flag = "True"
    /\ Cardinality(Matched) = 2
    /\ hs_pre.staged.kind = "list"
    /\ Len(hs_pre.staged.items) = 2
    /\ memory.staged = hs_pre.staged
    /\ memory.flag = "True"


(***************************************************************************)
(* Properties of the pinned case, the loop guard and the parallel policy   *)
(***************************************************************************)
\* C24: with a pinned function every handler that runs is the handler of the pinned
\* function, called with the arguments of the first call of the completion and
\* answered under that call's id, whatever name the call carries.
C24_PinnedHandlerAlways ==
    IsPinned(cfg) =>
        /\ \A i \in 1..Len(handler_calls) :
              handler_calls[i].handler = cfg.tool_choice.value
        /\ AtReinvocation =>
              /\ Len(handler_calls) > 0
              /\ handler_calls[Len(handler_calls)].kwargs = tool_calls[1].arguments.keys
              /\ handler_calls[Len(handler_calls)].tool_call_id = tool_calls[1].id
              /\ messages[Len(messages)] = ToolMessage(tool_calls[1], Len(handler_calls))

C24_Witness ==
    /\ IsPinned(cfg)
    /\ cfg.tool_choice.value = "G"
    /\ AtReinvocation
    /\ tool_calls[1].name = "U"
    /\ handler_calls[Len(handler_calls)].handler = "G"
    /\ messages[Len(messages)].tool_call_id = tool_calls[1].id

\* the template has an augmentation of type "none" and tools are enabled
LoopConfigured == cfg.augmentation = "none" /\ cfg.include_tools

InLoop == pc \in {"loop", "pinned", "multi", "reinvoke", "raised"}

\* C25: the loop is entered only with an augmentation of type "none", tools enabled
\* and tool calls in the initial completion; in every other configuration a turn that
\* got its completion made exactly one model invocation and no handler invocation,
\* even when the completion carries tool calls.
C25_LoopEntryGuard ==
    /\ (InLoop \/ Len(requests) > 1 \/ handler_calls # <<>>) =>
          /\ LoopConfigured
          /\ Len(response_message.tool_calls) > 0
    /\ (~LoopConfigured /\ Completed) =>
          /\ pc = "done"
          /\ result.status = "success"
          /\ Len(requests) = 1
          /\ handler_calls = <<>>

C25_Witness ==
    /\ cfg.include_tools
    /\ cfg.augmentation = "sequence"
    /\ Completed
    /\ Len(response_message.tool_calls) = 2
    /\ pc = "done"
    /\ Len(requests) = 1
    /\ handler_calls = <<>>

\* C27: the first model request carries parallel_tool_calls = true whatever the
\* configured value, while with a configured value of false or unset no round is run
\* for a completion with more than one call: the loop exits without a handler call.
C27_ParallelPolicyMismatch ==
    /\ Len(requests) >= 1 => requests[1].parallel_tool_calls = "True"
    /\ (cfg.parallel_tool_calls \in {"False", "None"} /\ Len(tool_calls) > 1) =>
          /\ ~InRound
          /\ HandlerCallsFor(CurrentIds) = {}
          /\ raised = None

C27_Witness ==
    /\ cfg.parallel_tool_calls = "False"
    /\ LoopConfigured
    /\ Len(requests) = 1
    /\ requests[1].parallel_tool_calls = "True"
    /\ Len(tool_calls) = 2
    /\ pc = "done"
    /\ result.status = "success"
    /\ handler_calls = <<>>


(***************************************************************************)
(* The tracking key after a validation                                     *)
(***************************************************************************)
\* validate_response has run in this turn
ValidationRan == pb_pc # "start" /\ validation # NoValidation

\* C26: validate_response never rejects: every path returns valid = true, and every
\* path that returns no value sets the tracking key to the empty list; so the key is
\* present after any validation and the tracking-key guard of the plan builder holds
\* for every plan built after it.
C26_ValidationSetsTrackingKey ==
    /\ Validated =>
          /\ validation.valid
          /\ ~validation.has_value => store = [has |-> TRUE, value |-> <<>>]
          /\ validation.has_value => store = pb_pre.store
    /\ ValidationRan =>
          /\ validation.valid
          /\ StoreHas(store)
          /\ Planned => StoreHas(pb_pre.store)

C26_Witness ==
    /\ Planned
    /\ ValidationRan
    /\ ~validation.has_value
    /\ aug_actions
    /\ HasActionCalls(prompt_response.message)
    /\ PlanContent.kind = "list"
    /\ Len(PlanContent.calls) = 2
    /\ Len(LastPlan.commands) = 2
    /\ LastPlan.commands[1].type = "DO"


(***************************************************************************)
(* Termination of the resolution loop                                      *)
(***************************************************************************)
\* the latest model invocation returned a completion without tool calls
ModelStops ==
    /\ final_response.n >= 1
    /\ Len(requests) = final_response.n
    /\ tool_calls = <<>>

Finished == pc \in {"done", "raised"}

\* the turn returned out of the loop with status success
LoopExited ==
    /\ pc = "done"
    /\ result.status = "success"
    /\ LoopEntered(cfg, response_message.tool_calls)

\* the last round appended the assistant message and no tool output after it
LastRoundWithoutOutput ==
    /\ messages # <<>>
    /\ messages[Len(messages)].role = "assistant"

\* C22: whenever the model returns a completion without tool calls the turn ends; and
\* the loop has no round limit: it exits with a result only on a completion without
\* tool calls, a policy boundary or a round that produced no output (the other ends
\* being an error), so rounds go on as long as the model returns a resolvable call.
C22_LoopTermination ==
    /\ [](LoopExited => (tool_calls = <<>> \/ PolicyBoundary \/ LastRoundWithoutOutput))
    /\ [](Finished => (pc = "raised" <=> raised # None))
    /\ (ModelStops ~> Finished)

\* MaxInvocations - 1 rounds, each with one resolved call, and the model asked again
C22_Witness ==
    /\ Len(requests) = MaxInvocations
    /\ Len(handler_calls) = MaxInvocations - 1
    /\ Cardinality(AssistantMessages) = MaxInvocations - 1
    /\ issued = MaxInvocations - 1
    /\ ModelStops
    /\ pc = "done"
    /\ result.status = "success"

====
